---- MODULE Spec2Model ----
\* A model of bin/generate_methylation_matrix.py (generate_matrix) and
\* bin/calculate_dmr_methylation.py (main).
\*
\* Text fields of the input files are tokens (strings).  pandas.read_csv turns
\* a column of tokens into typed values by inferring ONE dtype for the whole
\* column of the block it parses: int64 when every token is an integer, float64
\* when every token is a number, object (the tokens kept as str) otherwise.
\* Typed values are tagged pairs so that the Python values 2 and "2" differ:
\*   <<"int", n>>   a Python int
\*   <<"num", t>>   a Python float, t in tenths (0.5 is <<"num", 5>>)
\*   <<"str", s>>   a Python str
\*   <<"nan", 0>>   float('nan') / a missing value
EXTENDS Integers, Sequences, FiniteSets, TLC

VARIABLES
    \* ---- generate_matrix ----
    columns,        \* the column names of the sample list CSV (samples_df.columns)
    samples,        \* the rows of the sample list, each with the file behind its path
    chunk_size,     \* --chunk-size
    pc,             \* position of generate_matrix
    idx,            \* position of the current "for idx, row in samples_df.iterrows()" loop
    off,            \* rows of the current file already delivered by the chunk reader
    all_positions,  \* the set all_positions
    matrix,         \* the DataFrame matrix: [cols, rows]
    opened,         \* indices of the samples whose interval file a reader has opened
    resident,       \* rows of the current file held by the frame read last
    output,         \* the file --output: <<>> while not written, else <<[header, rows]>>
    exit_code,      \* process exit status, -1 while running
    prev,           \* outcome of an earlier run on the same inputs: <<>> or
                    \* <<[chunk_size, exit_code, output]>>
    \* ---- calculate_dmr_methylation ----
    mode,           \* --mode
    bedgraph,       \* the file --bedgraph: [exists, rows]
    dpc,            \* position of main
    df,             \* the DataFrame df
    col,            \* position of the "for col in numeric_cols" loop
    result,         \* the file --output: <<>> while not written, else <<rows>>
    dexit           \* process exit status, -1 while running

mvars == <<columns, samples, chunk_size, pc, idx, off, all_positions, matrix,
           opened, resident, output, exit_code, prev>>
dvars == <<mode, bedgraph, dpc, df, col, result, dexit>>
vars == <<columns, samples, chunk_size, pc, idx, off, all_positions, matrix,
          opened, resident, output, exit_code, prev, mode, bedgraph, dpc, df,
          col, result, dexit>>

\* ------------------------------------------------------------------ bounds
MaxSamples == 2
MaxTotalRows == 3
MaxChunk == 2

\* ------------------------------------------------------------------ tokens
\* The integer and decimal tokens the input files are written with.
IntTokens == {"0", "1", "2", "3", "5", "9", "10"}
FloatTokens == {"0.5", "0.9"}

\* int(token)
IntOf(t) ==
    CASE t = "0" -> 0 [] t = "1" -> 1 [] t = "2" -> 2 [] t = "3" -> 3
      [] t = "5" -> 5 [] t = "9" -> 9 [] t = "10" -> 10

\* float(token), in tenths
TenthsOf(t) ==
    CASE t = "0.5" -> 5 [] t = "0.9" -> 9 [] OTHER -> IntOf(t) * 10

\* str(int)
StrOfInt(n) == CHOOSE t \in IntTokens : IntOf(t) = n

\* str(float) for the floats the model meets: repr keeps one decimal
StrOfTenths(x) ==
    CASE x = 0 -> "0.0" [] x = 5 -> "0.5" [] x = 9 -> "0.9" [] x = 10 -> "1.0"
      [] x = 20 -> "2.0" [] x = 30 -> "3.0" [] x = 50 -> "5.0" [] x = 90 -> "9.0"
      [] x = 100 -> "10.0"

\* Python's str ordering (code points) on the strings of the model.
LexOrder == <<"0", "0.5", "0.9", "1", "10", "2", "3", "5", "9", "X", "abc", "x">>
LexRank(s) == CHOOSE i \in 1..Len(LexOrder) : LexOrder[i] = s
StrLess(a, b) == LexRank(a) < LexRank(b)

NaN == <<"nan", 0>>
IsStr(v) == v[1] = "str"
IsNaN(v) == v[1] = "nan"
\* the number a numeric value stands for, in tenths
Tenths(v) == IF v[1] = "int" THEN v[2] * 10 ELSE v[2]

\* pandas.read_csv dtype inference for one column of one parsed block.
InferColumn(toks) ==
    LET n == Len(toks) IN
    IF \A i \in 1..n : toks[i] \in IntTokens
    THEN [i \in 1..n |-> <<"int", IntOf(toks[i])>>]
    ELSE IF \A i \in 1..n : toks[i] \in IntTokens \cup FloatTokens \cup {""}
    THEN [i \in 1..n |-> IF toks[i] = "" THEN NaN ELSE <<"num", TenthsOf(toks[i])>>]
    ELSE [i \in 1..n |-> IF toks[i] = "" THEN NaN ELSE <<"str", toks[i]>>]

\* pandas.read_csv(..., header=None, names=[...]) on a block of rows of ncols
\* fields: the frame as a sequence of rows of typed values.
ParseBlock(rows, ncols) ==
    LET typed(j) == InferColumn([i \in 1..Len(rows) |-> rows[i][j]])
        cols == [j \in 1..ncols |-> typed(j)]
    IN [i \in 1..Len(rows) |-> [j \in 1..ncols |-> cols[j][i]]]

\* DataFrame.to_csv(na_rep='NA') of one cell.
Render(v) ==
    CASE v[1] = "int" -> StrOfInt(v[2])
      [] v[1] = "num" -> StrOfTenths(v[2])
      [] v[1] = "str" -> v[2]
      [] v[1] = "nan" -> "NA"


\* ============================================================ generate_matrix
\* The rows the interval files are written with: <<chr, start, end, meth_rate>>.
RowPool ==
    { <<"2", "5", "9", "0.5">>,      \* a valid row, chromosome named by a number
      <<"10", "5", "9", "0.5">>,     \* a second numeric chromosome name
      <<"10", "5", "9", "0.9">>,     \* the same key again with another rate
      <<"X", "5", "9", "0.5">>,      \* a valid row, chromosome named by a letter
      <<"2", "x", "9", "abc">> }     \* start and rate cannot be coerced to a number

RequiredColumns == {"sample", "bedgraph_file_path"}

SeqsUpTo(S, n) == UNION {[1..k -> S] : k \in 0..n}

\* The names of a list of n samples: pairwise distinct names, one name
\* repeated, or a first sample named like the key column chr (the sample
\* column is not checked for either).
DefaultNames == <<"A", "B", "C", "D">>
SampleNameLists(n) ==
    { [i \in 1..n |-> DefaultNames[i]],
      [i \in 1..n |-> "A"],
      [i \in 1..n |-> IF i = 1 THEN "chr" ELSE DefaultNames[i]] }

\* The sample list of n samples whose files hold, one after the other, the
\* rows of flat up to the cuts; a path that names no file has no rows.
SampleList(n, names, ex, flat, cut) ==
    [i \in 1..n |->
        [sample |-> names[i],
         exists |-> ex[i],
         rows |-> SubSeq(flat, (IF i = 1 THEN 0 ELSE cut[i - 1]) + 1, cut[i])]]

Min(a, b) == IF a < b THEN a ELSE b

\* (chr, start, end) of a parsed row
KeyOf(r) == <<r[1], r[2], r[3]>>

\* set(zip(chunk['chr'], chunk['start'], chunk['end']))
Positions(chunk) ==
    LET frame == ParseBlock(chunk, 4) IN {KeyOf(frame[i]) : i \in 1..Len(frame)}

\* Order of two values of one column under lexsort_indexer's
\* Categorical(k, ordered=True): numbers ascending, before strings ascending.
ValueLess(a, b) ==
    \/ ~IsStr(a) /\ IsStr(b)
    \/ ~IsStr(a) /\ ~IsStr(b) /\ Tenths(a) < Tenths(b)
    \/ IsStr(a) /\ IsStr(b) /\ StrLess(a[2], b[2])

KeyLess(j, k) ==
    \/ ValueLess(j[1], k[1])
    \/ j[1] = k[1] /\ ValueLess(j[2], k[2])
    \/ j[1] = k[1] /\ j[2] = k[2] /\ ValueLess(j[3], k[3])

\* positions_df.sort_values(['chr', 'start', 'end']) as the sequence of its rows
SortValues(S) ==
    [i \in 1..Cardinality(S) |->
        CHOOSE k \in S : Cardinality({j \in S : KeyLess(j, k)}) = i - 1]

\* missing_columns
MissingColumns(cols) == RequiredColumns \ cols

\* InvalidPaths with the path check left out
InvalidPathsUnchecked(s) == {}

\* invalid_paths, as the indices of the rows of the sample list
InvalidPaths(s) == {i \in 1..Len(s) : ~s[i].exists}

\* {(chrom, start, end): rate for ... in zip(...)}: a later row overwrites
MethDict(frame) ==
    [k \in {KeyOf(frame[i]) : i \in 1..Len(frame)} |->
        LET last == CHOOSE i \in 1..Len(frame) :
                       /\ KeyOf(frame[i]) = k
                       /\ \A j \in 1..Len(frame) : KeyOf(frame[j]) = k => j <= i
        IN frame[last][4]]

\* position of a column label in matrix.cols (0 when absent)
ColIndex(cols, name) ==
    IF \E i \in 1..Len(cols) : cols[i] = name
    THEN CHOOSE i \in 1..Len(cols) : cols[i] = name
    ELSE 0

\* matrix.apply(lambda row: meth_dict.get((row['chr'], row['start'], row['end']), nan), axis=1)
ApplyLookup(m, meth_dict) ==
    [i \in 1..Len(m.rows) |->
        LET row == m.rows[i]
            key == <<row[ColIndex(m.cols, "chr")], row[ColIndex(m.cols, "start")],
                     row[ColIndex(m.cols, "end")]>>
        IN IF key \in DOMAIN meth_dict THEN meth_dict[key] ELSE NaN]

\* matrix[sample] = series: sets the column of that label, appends it when new
SetColumn(m, name, series) ==
    LET c == ColIndex(m.cols, name) IN
    IF c = 0
    THEN [cols |-> Append(m.cols, name),
          rows |-> [i \in 1..Len(m.rows) |-> Append(m.rows[i], series[i])]]
    ELSE [cols |-> m.cols,
          rows |-> [i \in 1..Len(m.rows) |-> [m.rows[i] EXCEPT ![c] = series[i]]]]

\* matrix.to_csv(output, sep='\t', index=False, na_rep='NA')
ToCsv(m) ==
    [header |-> m.cols,
     rows |-> [i \in 1..Len(m.rows) |->
                  [j \in 1..Len(m.cols) |-> Render(m.rows[i][j])]]]

EmptyMatrix == [cols |-> <<>>, rows |-> <<>>]

MatrixIdle ==
    /\ columns = {} /\ samples = <<>> /\ chunk_size = 1 /\ pc = "idle"
    /\ idx = 0 /\ off = 0 /\ all_positions = {} /\ matrix = EmptyMatrix
    /\ opened = {} /\ resident = 0 /\ output = <<>> /\ exit_code = -1
    /\ prev = <<>>

MatrixInit ==
    /\ columns \in SUBSET RequiredColumns
    /\ \E n \in 0..MaxSamples, flat \in SeqsUpTo(RowPool, MaxTotalRows) :
         \E names \in SampleNameLists(n), ex \in [1..n -> BOOLEAN],
            cut \in [1..n -> 0..Len(flat)] :
            /\ columns # RequiredColumns => n = 0
            /\ Len(flat) = (IF n = 0 THEN 0 ELSE cut[n])
            /\ \A i \in 1..n :
                  /\ i > 1 => cut[i - 1] <= cut[i]
                  /\ ~ex[i] => cut[i] = (IF i = 1 THEN 0 ELSE cut[i - 1])
            /\ samples = SampleList(n, names, ex, flat, cut)
    /\ chunk_size \in {1, MaxChunk}
    /\ pc = "start"
    /\ idx = 0 /\ off = 0 /\ all_positions = {} /\ matrix = EmptyMatrix
    /\ opened = {} /\ resident = 0 /\ output = <<>> /\ exit_code = -1
    /\ prev = <<>>

\* sys.exit(1), from a failed validation or from the except clause
Exit1 ==
    /\ pc' = "done"
    /\ exit_code' = 1

\* lines 36-55: read the sample list, validate its columns and its paths
Validate ==
    /\ pc = "start"
    /\ IF MissingColumns(columns) # {} \/ InvalidPaths(samples) # {}
       THEN Exit1 /\ idx' = idx
       ELSE /\ pc' = IF Len(samples) = 0 THEN "index" ELSE "pass1"
            /\ idx' = 1
            /\ exit_code' = exit_code
    /\ UNCHANGED <<columns, samples, chunk_size, off, all_positions, matrix,
                   opened, resident, output>>
    /\ UNCHANGED prev
    /\ UNCHANGED dvars

\* lines 70-85: one chunk of the first pass over samples[idx]
Pass1Chunk ==
    /\ pc = "pass1"
    /\ LET rows == samples[idx].rows
           chunk == SubSeq(rows, off + 1, Min(off + chunk_size, Len(rows)))
       IN
       /\ opened' = opened \cup {idx}
       /\ IF ~samples[idx].exists \/ Len(rows) = 0
          THEN \* FileNotFoundError, EmptyDataError: caught at line 137
               Exit1 /\ UNCHANGED <<idx, off, all_positions, resident>>
          ELSE /\ resident' = Len(chunk)
               /\ all_positions' = all_positions \cup Positions(chunk)
               /\ IF off + Len(chunk) < Len(rows)
                  THEN /\ off' = off + Len(chunk)
                       /\ UNCHANGED <<idx, pc>>
                  ELSE /\ off' = 0
                       /\ idx' = idx + 1
                       /\ pc' = IF idx = Len(samples) THEN "index" ELSE "pass1"
               /\ exit_code' = exit_code
    /\ UNCHANGED <<columns, samples, chunk_size, matrix, output>>
    /\ UNCHANGED prev
    /\ UNCHANGED dvars

\* lines 87-97: the sorted positions become the rows of the matrix
BuildIndex ==
    /\ pc = "index"
    /\ matrix' = [cols |-> <<"chr", "start", "end">>, rows |-> SortValues(all_positions)]
    /\ pc' = IF Len(samples) = 0 THEN "save" ELSE "pass2"
    /\ idx' = 1
    /\ UNCHANGED <<columns, samples, chunk_size, off, all_positions, opened,
                   resident, output, exit_code>>
    /\ UNCHANGED prev
    /\ UNCHANGED dvars

\* lines 108-130: the second pass over samples[idx], the file read whole
Pass2Sample ==
    /\ pc = "pass2"
    /\ LET rows == samples[idx].rows
           bedgraph_df == ParseBlock(rows, 4)
       IN
       /\ opened' = opened \cup {idx}
       /\ IF ~samples[idx].exists \/ Len(rows) = 0
          THEN Exit1 /\ UNCHANGED <<idx, matrix, resident>>
          ELSE /\ resident' = Len(rows)
               /\ matrix' = SetColumn(matrix, samples[idx].sample,
                                      ApplyLookup(matrix, MethDict(bedgraph_df)))
               /\ idx' = idx + 1
               /\ pc' = IF idx = Len(samples) THEN "save" ELSE "pass2"
               /\ exit_code' = exit_code
    /\ UNCHANGED <<columns, samples, chunk_size, off, all_positions, output>>
    /\ UNCHANGED prev
    /\ UNCHANGED dvars

\* lines 132-135: write the matrix
Save ==
    /\ pc = "save"
    /\ output' = <<ToCsv(matrix)>>
    /\ exit_code' = 0
    /\ pc' = "done"
    /\ UNCHANGED <<columns, samples, chunk_size, idx, off, all_positions, matrix,
                   opened, resident>>
    /\ UNCHANGED prev
    /\ UNCHANGED dvars

DmrIdle ==
    /\ mode = "rate" /\ bedgraph = [exists |-> FALSE, rows |-> <<>>] /\ dpc = "idle"
    /\ df = [object |-> {}, rows |-> <<>>] /\ col = 0 /\ result = <<>> /\ dexit = -1

Init == MatrixInit /\ DmrIdle

Next == Validate \/ Pass1Chunk \/ BuildIndex \/ Pass2Sample \/ Save

Spec == Init /\ [][Next]_vars

\* lines 20-25: the command is invoked once more on the same sample list and
\* the same files, with another value of --chunk-size
Rerun ==
    /\ pc = "done"
    /\ prev = <<>>
    /\ prev' = <<[chunk_size |-> chunk_size, exit_code |-> exit_code,
                  output |-> output]>>
    /\ chunk_size' \in {1, MaxChunk} \ {chunk_size}
    /\ pc' = "start"
    /\ idx' = 0 /\ off' = 0 /\ all_positions' = {} /\ matrix' = EmptyMatrix
    /\ opened' = {} /\ resident' = 0 /\ output' = <<>> /\ exit_code' = -1
    /\ UNCHANGED <<columns, samples>>
    /\ UNCHANGED dvars

NextTwoRuns == Validate \/ Pass1Chunk \/ BuildIndex \/ Pass2Sample \/ Save \/ Rerun

SpecTwoRuns == Init /\ [][NextTwoRuns]_vars


\* ------------------------------------------------- claims on generate_matrix
\* What the claims speak of, read off the input files and the output file.
KeyTokens(r) == <<r[1], r[2], r[3]>>
Numeric(t) == t \in IntTokens \cup FloatTokens
\* a valid row: start, end and rate are numbers
ValidRow(r) == r[2] \in IntTokens /\ r[3] \in IntTokens /\ Numeric(r[4])
AllRowsValid ==
    \A i \in 1..Len(samples) : \A j \in 1..Len(samples[i].rows) :
        ValidRow(samples[i].rows[j])
ValidInputs ==
    /\ columns = {"sample", "bedgraph_file_path"}
    /\ \A i \in 1..Len(samples) : samples[i].exists
\* sample names that are pairwise distinct and differ from the key columns
CleanNames ==
    /\ \A i \in 1..Len(samples) : samples[i].sample \notin {"chr", "start", "end"}
    /\ \A i, j \in 1..Len(samples) : i # j => samples[i].sample # samples[j].sample
Succeeded == pc = "done" /\ exit_code = 0 /\ output # <<>>
OutRows == output[1].rows
OutKey(i) == <<OutRows[i][1], OutRows[i][2], OutRows[i][3]>>
\* the keys of the valid rows of the sample files
InputKeys ==
    UNION { {KeyTokens(samples[i].rows[j]) :
                j \in {n \in 1..Len(samples[i].rows) : ValidRow(samples[i].rows[n])}}
            : i \in 1..Len(samples) }
\* the rows of sample i that carry key k
RowsWithKey(i, k) ==
    {j \in 1..Len(samples[i].rows) : KeyTokens(samples[i].rows[j]) = k}
Max(S) == CHOOSE x \in S : \A y \in S : y <= x

\* C1 (universe completeness), for sample lists with clean names and files of
\* valid rows only: in the written matrix every key of a sample file is the key
\* of exactly one row, and every row carries a key of some sample file.
C1_UniverseCompleteness ==
    (Succeeded /\ CleanNames /\ AllRowsValid) =>
        /\ \A k \in InputKeys :
              Cardinality({i \in 1..Len(OutRows) : OutKey(i) = k}) = 1
        /\ \A i \in 1..Len(OutRows) : OutKey(i) \in InputKeys

\* C2 (missing-cell correctness), for the same inputs: the cell of row k and
\* sample s is NA when s has no record with key k, and else the rate of the
\* last record of s with key k.
C2_MissingCellCorrectness ==
    (Succeeded /\ CleanNames /\ AllRowsValid) =>
        \A i \in 1..Len(OutRows) : \A s \in 1..Len(samples) :
            Len(OutRows[i]) >= 3 + s =>
                LET js == RowsWithKey(s, OutKey(i)) IN
                OutRows[i][3 + s] =
                    IF js = {} THEN "NA"
                    ELSE StrOfTenths(TenthsOf(samples[s].rows[Max(js)][4]))

\* C3 (column completeness): the header of the written matrix is chr, start,
\* end and then one column per listed sample, in list order.
C3_ColumnCompleteness ==
    Succeeded =>
        output[1].header =
            <<"chr", "start", "end">> \o [i \in 1..Len(samples) |-> samples[i].sample]

\* C4 (row sort order), for sample lists with clean names and files of valid
\* rows only: adjacent rows of the written matrix are ordered by chromosome
\* (lexicographic), then start ascending, then end ascending.
C4_RowSortOrder ==
    (Succeeded /\ CleanNames /\ AllRowsValid) =>
        \A i \in 1..Len(OutRows) - 1 :
            LET a == OutKey(i)
                b == OutKey(i + 1)
            IN \/ StrLess(a[1], b[1])
               \/ a[1] = b[1] /\ IntOf(a[2]) < IntOf(b[2])
               \/ a[1] = b[1] /\ a[2] = b[2] /\ IntOf(a[3]) <= IntOf(b[3])

\* C5 (fail-early validation): no interval file is opened, no key collected and
\* no output written unless both required columns are there and every path
\* exists; a run whose validation fails has ended with exit status 1 as soon
\* as it has left its first step.
C5_FailEarly ==
    /\ (opened # {} \/ output # <<>> \/ all_positions # {} \/ matrix # EmptyMatrix
            \/ pc \in {"pass1", "index", "pass2", "save"})
          => ValidInputs
    /\ (~ValidInputs /\ pc # "start") => (pc = "done" /\ exit_code = 1)

\* C5 witness: a list whose first file exists with rows and whose second path
\* names no file has been rejected before any file was opened.
C5_Witness ==
    /\ pc = "done" /\ exit_code = 1 /\ opened = {} /\ output = <<>>
    /\ Len(samples) = 2
    /\ samples[1].exists /\ Len(samples[1].rows) > 0
    /\ ~samples[2].exists

\* C6 (empty result): a run whose inputs pass validation and whose position
\* universe is empty ends with a non-zero exit status and writes no output.
C6_EmptyResultFails ==
    (pc = "done" /\ ValidInputs /\ all_positions = {}) =>
        (exit_code # 0 /\ output = <<>>)

\* C7 (unparsable numerics are dropped): every key of the position universe
\* is the key of a valid row of some sample file.
C7_UnparsableDropped ==
    \A k \in all_positions :
        <<Render(k[1]), Render(k[2]), Render(k[3])>> \in InputKeys

\* C8 (chunk-bounded residency): the rows of the current file held at once
\* never exceed the chunk size.
C8_ChunkBounded == resident <= chunk_size

\* the key columns chr, start, end of the rows of a matrix
KeyColumns(m) == [i \in 1..Len(m.rows) |-> SubSeq(m.rows[i], 1, 3)]
\* column c of a matrix
ColumnAt(m, c) == [i \in 1..Len(m.rows) |-> m.rows[i][c]]

\* one step of the two-phase ordering: within each pass the samples are taken
\* one at a time in list order; no step of Pass 2 happens before Pass 1 has read the
\* file of every sample; and from the end of Pass 1 on the position universe
\* and the rows of the matrix stay as they are: a step of Pass 2 adds or sets
\* the column of its sample and leaves the key columns, the number and order of
\* the rows and every other column unchanged.
TwoPhaseStep ==
        /\ (pc = "pass1" /\ pc' \in {"pass1", "index"}) =>
              /\ idx' \in {idx, idx + 1}
              /\ opened' = 1..idx
              /\ matrix' = EmptyMatrix
        /\ pc' = "pass2" =>
              /\ pc \in {"index", "pass2"}
              /\ opened = 1..Len(samples)
        /\ pc \in {"index", "pass2", "save", "done"} =>
              all_positions' = all_positions
        /\ (pc = "pass2" /\ pc' \in {"pass2", "save"}) =>
              /\ idx' = idx + 1
              /\ Len(matrix'.rows) = Len(matrix.rows)
              /\ KeyColumns(matrix') = KeyColumns(matrix)
              /\ SubSeq(matrix'.cols, 1, 3) = <<"chr", "start", "end">>
              /\ Len(matrix'.cols) \in {Len(matrix.cols), Len(matrix.cols) + 1}
              /\ \A c \in 1..Len(matrix.cols) :
                    matrix.cols[c] # samples[idx].sample =>
                        /\ matrix'.cols[c] = matrix.cols[c]
                        /\ ColumnAt(matrix', c) = ColumnAt(matrix, c)
        /\ pc \in {"save", "done"} => matrix' = matrix

\* C11: every step of generate_matrix is a step of the two-phase ordering
\* (samples in list order, Pass 2 only after Pass 1 has finished for every
\* sample, rows and key columns fixed from the end of Pass 1 on).
C11_TwoPhaseOrdering == [][TwoPhaseStep]_vars

\* C12 (chunk-size independence): two runs on the same sample list and the
\* same files that differ only in --chunk-size end with the same exit status
\* and, on success, with the same output (header, rows and cell values).
C12_ChunkSizeIndependence ==
    (pc = "done" /\ prev # <<>>) =>
        /\ prev[1].chunk_size # chunk_size
        /\ prev[1].exit_code = exit_code
        /\ prev[1].output = output


\* ================================================== calculate_dmr_methylation
MaxDmrRows == 3

\* The rows the --bedgraph file is written with, given by the interval start,
\* the two value fields and the DMR start, and laid out in ncols columns:
\*   7: chr start end rate            chr_dmr start_dmr end_dmr
\*   8: chr start end meth unmeth     chr_dmr start_dmr end_dmr
\*   9: chr start end pct meth unmeth chr_dmr start_dmr end_dmr
Layout(ncols, start, a, b, ds) ==
    CASE ncols = 7 -> <<"X", start, "9", a, "X", ds, "10">>
      [] ncols = 8 -> <<"X", start, "9", a, b, "X", ds, "10">>
      [] ncols = 9 -> <<"X", start, "9", "0.5", a, b, "X", ds, "10">>

DmrRowPool(ncols) ==
    { Layout(ncols, "5", "3", "1", "0"),   \* DMR X:0-10
      Layout(ncols, "5", "1", "5", "0"),   \* DMR X:0-10 again
      Layout(ncols, "5", "0", "0", "3"),   \* DMR X:3-10, nothing counted
      Layout(ncols, "x", "2", "1", "0"),   \* start is no number
      Layout(ncols, "5", "2", "1", "") }   \* no DMR start

\* lines 38-45
ColumnNames(m) ==
    IF m = "rate"
    THEN <<"chr", "start", "end", "meth_rate", "chr_dmr", "start_dmr", "end_dmr">>
    ELSE <<"chr", "start", "end", "meth_count", "unmeth_count", "chr_dmr",
           "start_dmr", "end_dmr">>
UseCols(m) ==
    IF m = "rate" THEN <<0, 1, 2, 3, 4, 5, 6>> ELSE <<0, 1, 2, 4, 5, 6, 7, 8>>
NumericCols(m) ==
    IF m = "rate"
    THEN <<"start", "end", "meth_rate", "start_dmr", "end_dmr">>
    ELSE <<"start", "end", "meth_count", "unmeth_count", "start_dmr", "end_dmr">>

Range(f) == {f[i] : i \in DOMAIN f}

\* pd.read_csv(bedgraph, sep='\t', header=None, names=column_names,
\* usecols=use_cols) fails on an empty file and on a usecols index the file
\* does not have.
ReadFails(rows, usecols) ==
    \/ Len(rows) = 0
    \/ \E k \in 1..Len(usecols) : usecols[k] >= Len(rows[1])

\* The frame read: the dtype of each column (object or not) and the rows,
\* each a record over the column names.
ReadCsv(rows, names, usecols) ==
    LET frame == ParseBlock(rows, Len(rows[1]))
        at(c) == usecols[CHOOSE k \in 1..Len(names) : names[k] = c] + 1
    IN [object |-> {c \in Range(names) :
                       \E i \in 1..Len(frame) : IsStr(frame[i][at(c)])},
        rows |-> [i \in 1..Len(frame) |-> [c \in Range(names) |-> frame[i][at(c)]]]]

\* pd.to_numeric(value, errors='coerce') of one value of an object column
ToNumeric(v) ==
    IF IsStr(v) /\ v[2] \in IntTokens \cup FloatTokens
    THEN <<"num", TenthsOf(v[2])>>
    ELSE IF IsStr(v) THEN NaN ELSE v

\* lines 62-66 for one column: an object column is coerced and the rows it
\* leaves without a number are dropped; a numeric column is left alone.
CoerceColumn(frame, c) ==
    IF c \in frame.object
    THEN LET coerced == [i \in 1..Len(frame.rows) |->
                            [frame.rows[i] EXCEPT ![c] = ToNumeric(@)]]
         IN [object |-> frame.object \ {c},
             rows |-> SelectSeq(coerced, LAMBDA r : ~IsNaN(r[c]))]
    ELSE frame

DmrKey(r) == <<r["chr_dmr"], r["start_dmr"], r["end_dmr"]>>

\* the groups of df.groupby(['chr_dmr', 'start_dmr', 'end_dmr']): rows with a
\* missing key value belong to no group (dropna=True), groups come sorted
GroupKeys(rows) ==
    SortValues({DmrKey(rows[i]) : i \in {j \in 1..Len(rows) :
        \A n \in 1..3 : ~IsNaN(DmrKey(rows[j])[n])}})

\* 'sum' of column c over the rows of group k, in tenths; NaN is skipped
RECURSIVE GroupSum(_, _, _, _)
GroupSum(rows, k, c, n) ==
    IF n = 0 THEN 0
    ELSE GroupSum(rows, k, c, n - 1) +
         (IF DmrKey(rows[n]) = k /\ ~IsNaN(rows[n][c]) THEN Tenths(rows[n][c]) ELSE 0)

\* the number of values 'mean' averages
GroupCount(rows, k, c) ==
    Cardinality({i \in 1..Len(rows) : DmrKey(rows[i]) = k /\ ~IsNaN(rows[i][c])})

RECURSIVE Gcd(_, _)
Gcd(a, b) == IF b = 0 THEN a ELSE Gcd(b, a % b)

\* the float n / d, kept as a fraction in lowest terms
Ratio(n, d) == <<"ratio", n \div Gcd(n, d), d \div Gcd(n, d)>>

\* CountRate with the unmethylated share taken for the methylated one
CountRateUnmeth(m, total) == IF total > 0 THEN Ratio(total - m, total) ELSE Ratio(0, 1)

\* line 89: np.where(total_counts > 0, meth_count / total_counts, 0)
CountRate(m, total) == IF total > 0 THEN Ratio(m, total) ELSE Ratio(0, 1)

\* lines 76-78: the mean of the rates of a group
MeanRate(rows, k) ==
    IF GroupCount(rows, k, "meth_rate") = 0 THEN NaN
    ELSE Ratio(GroupSum(rows, k, "meth_rate", Len(rows)),
               10 * GroupCount(rows, k, "meth_rate"))

\* lines 74-92: result_df, one row <<chr_dmr, start_dmr, end_dmr, meth_rate>> per group
ResultDf(m, rows) ==
    LET keys == GroupKeys(rows) IN
    [g \in 1..Len(keys) |->
        LET k == keys[g]
            rate == IF m = "rate" THEN MeanRate(rows, k)
                    ELSE LET meth == GroupSum(rows, k, "meth_count", Len(rows))
                             unmeth == GroupSum(rows, k, "unmeth_count", Len(rows))
                         IN CountRate(meth, meth + unmeth)
        IN <<k[1], k[2], k[3], rate>>]

EmptyFrame == [object |-> {}, rows |-> <<>>]

DmrInit ==
    /\ mode \in {"rate", "count"}
    /\ bedgraph \in
          {[exists |-> FALSE, rows |-> <<>>]} \cup
          UNION {[exists : {TRUE}, rows : SeqsUpTo(DmrRowPool(n), MaxDmrRows)] :
                    n \in {7, 8, 9}}
    /\ dpc = "start"
    /\ df = EmptyFrame /\ col = 0 /\ result = <<>> /\ dexit = -1

\* lines 47-58: the existence check and the read
DmrRead ==
    /\ dpc = "start"
    /\ IF ~bedgraph.exists \/ ReadFails(bedgraph.rows, UseCols(mode))
       THEN /\ dpc' = "done" /\ dexit' = 1
            /\ UNCHANGED <<df, col>>
       ELSE /\ df' = ReadCsv(bedgraph.rows, ColumnNames(mode), UseCols(mode))
            /\ col' = 1
            /\ dpc' = "validate"
            /\ dexit' = dexit
    /\ UNCHANGED <<mode, bedgraph, result>>
    /\ UNCHANGED mvars

\* lines 61-69: one turn of the loop over numeric_cols
DmrValidateColumn ==
    /\ dpc = "validate"
    /\ df' = CoerceColumn(df, NumericCols(mode)[col])
    /\ col' = col + 1
    /\ dpc' = IF col = Len(NumericCols(mode)) THEN "aggregate" ELSE "validate"
    /\ UNCHANGED <<mode, bedgraph, result, dexit>>
    /\ UNCHANGED mvars

\* lines 74-95: group, reduce and write
DmrAggregate ==
    /\ dpc = "aggregate"
    /\ result' = <<ResultDf(mode, df.rows)>>
    /\ dexit' = 0
    /\ dpc' = "done"
    /\ UNCHANGED <<mode, bedgraph, df, col>>
    /\ UNCHANGED mvars

InitDmr == DmrInit /\ MatrixIdle

NextDmr == DmrRead \/ DmrValidateColumn \/ DmrAggregate

SpecDmr == InitDmr /\ [][NextDmr]_vars


\* --------------------------------------- claims on calculate_dmr_methylation
\* What the claims speak of, read off the --bedgraph file and the output file.
\* A count layout names the positions of its fields in a row of the file.
Count8 == [n |-> 8, numeric |-> {2, 3, 4, 5, 7, 8}, meth |-> 4, unmeth |-> 5, dmr |-> <<6, 7, 8>>]
Count9 == [n |-> 9, numeric |-> {2, 3, 5, 6, 8, 9}, meth |-> 5, unmeth |-> 6, dmr |-> <<7, 8, 9>>]
Rate7 == [n |-> 7, numeric |-> {2, 3, 4, 6, 7}, dmr |-> <<5, 6, 7>>]

InLayout(L) ==
    bedgraph.exists /\ Len(bedgraph.rows) > 0 /\ Len(bedgraph.rows[1]) = L.n
NoEmptyField ==
    \A i \in 1..Len(bedgraph.rows) : \A j \in 1..Len(bedgraph.rows[i]) :
        bedgraph.rows[i][j] # ""
\* the DMR key a row of the file carries
DmrTokens(L, r) == <<r[L.dmr[1]], r[L.dmr[2]], r[L.dmr[3]]>>
AllNumeric(L, r) == \A j \in L.numeric : Numeric(r[j])
\* the rows of the file the sums of DMR k run over
Members(L, k, onlyNumeric) ==
    {i \in 1..Len(bedgraph.rows) :
        /\ DmrTokens(L, bedgraph.rows[i]) = k
        /\ onlyNumeric => AllNumeric(L, bedgraph.rows[i])}
RECURSIVE TokenSum(_, _, _)
TokenSum(rowset, pos, n) ==
    IF n = 0 THEN 0
    ELSE TokenSum(rowset, pos, n - 1) +
         (IF n \in rowset THEN TenthsOf(bedgraph.rows[n][pos]) ELSE 0)
\* the DMR key of a row of the output equals the key k of the file
SameDmr(row, k) ==
    /\ Render(row[1]) = k[1]
    /\ Tenths(row[2]) = TenthsOf(k[2])
    /\ Tenths(row[3]) = TenthsOf(k[3])
\* The count law for the file read in layout L: the run has written one row
\* per distinct DMR key, with rate M/(M+U), or 0 when M+U = 0.
CountLaw(L, onlyNumeric) ==
    LET keys == {DmrTokens(L, bedgraph.rows[i]) :
                    i \in {j \in 1..Len(bedgraph.rows) :
                             onlyNumeric => AllNumeric(L, bedgraph.rows[j])}}
    IN
    /\ dexit = 0 /\ result # <<>>
    /\ \A k \in keys :
          Cardinality({g \in 1..Len(result[1]) : SameDmr(result[1][g], k)}) = 1
    /\ \A g \in 1..Len(result[1]) :
          \E k \in keys :
              LET rowset == Members(L, k, onlyNumeric)
                  M == TokenSum(rowset, L.meth, Len(bedgraph.rows))
                  U == TokenSum(rowset, L.unmeth, Len(bedgraph.rows))
                  rate == result[1][g][4]
              IN /\ SameDmr(result[1][g], k)
                 /\ rate[1] = "ratio"
                 /\ IF M + U = 0 THEN rate[2] = 0
                    ELSE rate[2] * (M + U) = M * rate[3]

\* C9 as claimed: in count mode an input in the 8-column layout (chr, start,
\* end, meth, unmeth, DMR chr, DMR start, DMR end) yields one row per distinct
\* DMR key with rate M/(M+U), M and U summed over all rows of the DMR.
C9_CountLaw8 ==
    (mode = "count" /\ dpc = "done" /\ InLayout(Count8)) => CountLaw(Count8, FALSE)

\* C9 as amended: in count mode an input in the 9-column layout (chr, start,
\* end, an ignored fourth column, meth, unmeth, DMR chr, DMR start, DMR end)
\* with no empty field and non-negative counts yields one row per distinct DMR
\* key carried by a row whose numeric fields are all numbers, with rate
\* M/(M+U), M and U summed over those rows of the DMR, or 0 when M+U = 0; an
\* input in the 8-column layout ends with exit status 1 and no output.
C9_CountLaw9 ==
    /\ (mode = "count" /\ dpc = "done" /\ InLayout(Count9) /\ NoEmptyField)
          => CountLaw(Count9, TRUE)
    /\ (mode = "count" /\ dpc = "done" /\ InLayout(Count8))
          => (dexit = 1 /\ result = <<>>)

\* C9 witness: rows (3, 1) and (1, 5) of one DMR gave 4/10, and a DMR with
\* nothing counted gave 0.
C9_Witness ==
    /\ mode = "count" /\ dpc = "done" /\ InLayout(Count9) /\ NoEmptyField
    /\ result # <<>> /\ Len(result[1]) = 2
    /\ result[1][1][4] = <<"ratio", 2, 5>>
    /\ result[1][2][4] = <<"ratio", 0, 1>>

\* C10 (DMR association is mandatory): in both modes, a run over a file in the
\* mode's layout with a row that lacks a field of its DMR key ends in an error.
C10_MissingDmrIsError ==
    \A L \in {Rate7, Count9} :
        ( /\ dpc = "done"
          /\ mode = (IF L.n = 7 THEN "rate" ELSE "count")
          /\ InLayout(L)
          /\ \E i \in 1..Len(bedgraph.rows) : \E n \in 1..3 :
                 DmrTokens(L, bedgraph.rows[i])[n] = "" )
        => dexit # 0

====
